---- MODULE Spec2Model ----
(***************************************************************************)
(* Model of the custom-element-boilerplate setup script.                   *)
(*                                                                         *)
(* Two versions of the script live in the repository:                      *)
(*   - src/unnamed/part_002 : separate filename / contents template maps,  *)
(*     contents rewritten before the rename;                               *)
(*   - src/src/main.js      : one template map, rename before the rewrite. *)
(* Definitions without a suffix model part_002; definitions ending in      *)
(* "Main" model src/src/main.js where it differs.                          *)
(*                                                                         *)
(* JavaScript strings are TLA+ strings (TLC evaluates Len, SubSeq and \o   *)
(* on them); positions are 1-based here, 0-based in the source.            *)
(***************************************************************************)
EXTENDS Integers, Sequences, FiniteSets, TLC

(***************************************************************************)
(* State                                                                   *)
(***************************************************************************)
VARIABLES
    pc,                          \* position in the async main function
    i,                           \* index of the manifest entry of the loop
    fs,                          \* the working tree: full path -> contents
    fs0,                         \* the working tree at the start of the run
    console,                     \* the lines written with console.log
    ops,                         \* the file operations done so far, in order
    gitOriginRemote, gitPath,    \* stdout of the git calls
    repositoryName,
    customElementNameCandidate,
    promptAnswer,
    answer,
    toCustomElementKeys,
    replacementMap,
    fromFileFullPath,
    targetFullPath,
    fileContent,
    updatedFileContent,
    call                         \* a single call of one function of the script

(***************************************************************************)
(* Bounds of the model                                                     *)
(***************************************************************************)
\* manifest files that may be missing from the working tree at start
MaxMissing == 1
\* length of the generated class names
MaxNameLen == 3
\* length of the generated texts given to replaceStringByMapParts
MaxTextLen == 2
\* length of the generated substitution lists
MaxSubs == 2

(***************************************************************************)
(* JavaScript string primitives                                            *)
(***************************************************************************)
UpperAlphabet == "ABCDEFGHIJKLMNOPQRSTUVWXYZ"
LowerAlphabet == "abcdefghijklmnopqrstuvwxyz"

CharAt(s, at) == SubSeq(s, at, at)

\* position of the one-character string c in alphabet, 0 when absent
IndexIn(c, alphabet) ==
    LET hits == {k \in 1..Len(alphabet) : CharAt(alphabet, k) = c}
    IN  IF hits = {} THEN 0 ELSE CHOOSE k \in hits : TRUE

charToUpperCase(c) ==
    LET k == IndexIn(c, LowerAlphabet)
    IN  IF k = 0 THEN c ELSE CharAt(UpperAlphabet, k)

charToLowerCase(c) ==
    LET k == IndexIn(c, UpperAlphabet)
    IN  IF k = 0 THEN c ELSE CharAt(LowerAlphabet, k)

\* the concatenation of parts[lo..hi], by halves
RECURSIVE ConcatRange(_, _, _)
ConcatRange(parts, lo, hi) ==
    IF lo > hi THEN ""
    ELSE IF lo = hi THEN parts[lo]
    ELSE ConcatRange(parts, lo, (lo + hi) \div 2)
             \o ConcatRange(parts, (lo + hi) \div 2 + 1, hi)

Concat(parts) == ConcatRange(parts, 1, Len(parts))

\* F of the value of v, with v evaluated once
With(v, F(_)) == CHOOSE out \in {F(x) : x \in {v}} : TRUE

\* the k-th smallest element of a finite set of integers
Nth(set, k) == CHOOSE x \in set : Cardinality({y \in set : y < x}) = k - 1

toUpperCase(s) == Concat([k \in 1..Len(s) |-> charToUpperCase(CharAt(s, k))])

toLowerCase(s) == Concat([k \in 1..Len(s) |-> charToLowerCase(CharAt(s, k))])

\* String.prototype.endsWith
endsWith(text, suffix) ==
    /\ Len(suffix) <= Len(text)
    /\ SubSeq(text, Len(text) - Len(suffix) + 1, Len(text)) = suffix

\* text.slice(0, -n): for n = 0 the end index is -0 = 0 and the slice is empty
sliceZeroToMinus(text, n) ==
    IF n = 0 THEN ""
    ELSE IF n >= Len(text) THEN ""
    ELSE SubSeq(text, 1, Len(text) - n)

IsWhiteSpace(c) == c \in {" ", "\t", "\n", "\r"}

\* String.prototype.trim: from the first to the last character that is no
\* white space
trim(s) ==
    LET keep == {k \in 1..Len(s) : ~IsWhiteSpace(CharAt(s, k))}
    IN  IF keep = {} THEN ""
        ELSE SubSeq(s, CHOOSE a \in keep : \A b \in keep : a <= b,
                       CHOOSE a \in keep : \A b \in keep : b <= a)

\* String.prototype.split(sep) for a one-character separator
split(s, sep) ==
    LET hits  == {k \in 1..Len(s) : CharAt(s, k) = sep}
        n     == Cardinality(hits)
        cut(j) == IF j = 0 THEN 0 ELSE IF j > n THEN Len(s) + 1 ELSE Nth(hits, j)
    IN  [j \in 1..(n + 1) |-> SubSeq(s, cut(j - 1) + 1, cut(j) - 1)]

\* Array.prototype.join
join(parts, sep) ==
    Concat([k \in 1..Len(parts) |-> IF k = 1 THEN parts[k] ELSE sep \o parts[k]])

(***************************************************************************)
(* [ text manipulation ] region of the script                              *)
(***************************************************************************)
ucFirst(text) ==
    IF text = "" THEN text
    ELSE charToUpperCase(CharAt(text, 1)) \o SubSeq(text, 2, Len(text))

lcFirst(text) ==
    IF text = "" THEN text
    ELSE charToLowerCase(CharAt(text, 1)) \o SubSeq(text, 2, Len(text))

\* the character class of escapeRegex: / - \ ^ $ * + ? . ( ) | [ ] { } < >
EscapedChars ==
    {"/", "-", "\\", "^", "$", "*", "+", "?", ".", "(", ")", "|",
     "[", "]", "{", "}", "<", ">"}

\* the class of src/src/main.js has no < and >
EscapedCharsMain == EscapedChars \ {"<", ">"}

escapeWith(text, class) ==
    Concat([k \in 1..Len(text) |->
               IF CharAt(text, k) \in class
               THEN "\\" \o CharAt(text, k) ELSE CharAt(text, k)])

\* text.replace(/[...]/g, '\\$&'): a backslash before every character of the class
escapeRegex(text) == IF text = "" THEN text ELSE escapeWith(text, EscapedChars)

escapeRegexMain(text) == escapeWith(text, EscapedCharsMain)

\* a trimSuffix that slices whether or not the text ends with the suffix
trimSuffixUnconditional(text, suffix) == sliceZeroToMinus(text, Len(suffix))

trimSuffix(text, suffix) ==
    IF text = "" THEN text
    ELSE IF endsWith(text, suffix) THEN sliceZeroToMinus(text, Len(suffix))
    ELSE text

trimSuffixMain(text, suffix) ==
    IF endsWith(text, suffix) THEN sliceZeroToMinus(text, Len(suffix)) ELSE text

(***************************************************************************)
(* new RegExp(source, 'g') and String.prototype.replace(regex, string)     *)
(*                                                                         *)
(* The pattern sources the script builds are sequences of plain and        *)
(* backslash-escaped characters.  The compiled pattern is a sequence of    *)
(* atoms: a literal character, "." (any character but a line terminator), *)
(* "^" (start of input) and "$" (end of input).                            *)
(***************************************************************************)
\* the number of backslashes in a row that end just before position k
BackslashRunBefore(source, k) ==
    LET others == {j \in 1..(k - 1) : CharAt(source, j) # "\\"}
    IN  IF others = {} THEN k - 1
        ELSE k - 1 - (CHOOSE j \in others : \A m \in others : m <= j)

\* position k holds a backslash that escapes the character after it
IsEscaper(source, k) ==
    /\ k < Len(source)
    /\ CharAt(source, k) = "\\"
    /\ BackslashRunBefore(source, k) % 2 = 0

\* the compiled pattern: its atoms and, when every atom is a literal character,
\* the string they spell
RegExpAtoms(source) ==
    LET atomAt(k) ==
            IF IsEscaper(source, k) THEN [kind |-> "escaper", ch |-> "\\"]
            ELSE IF k > 1 /\ IsEscaper(source, k - 1)
            THEN [kind |-> "lit", ch |-> CharAt(source, k)]
            ELSE [kind |-> (CASE CharAt(source, k) = "." -> "any"
                              [] CharAt(source, k) = "^" -> "bol"
                              [] CharAt(source, k) = "$" -> "eol"
                              [] OTHER -> "lit"),
                  ch |-> CharAt(source, k)]
        keep(a) == a.kind # "escaper"
        compiled(atoms) ==
            [atoms   |-> atoms,
             literal |-> \A k \in 1..Len(atoms) : atoms[k].kind = "lit",
             string  |-> IF \A k \in 1..Len(atoms) : atoms[k].kind = "lit"
                         THEN Concat([k \in 1..Len(atoms) |-> atoms[k].ch])
                         ELSE ""]
    IN  With(SelectSeq([k \in 1..Len(source) |-> atomAt(k)], keep), compiled)

Consumes(atom) == atom.kind \in {"lit", "any"}

\* the position after the match of the atoms starting at position p, 0 for none
MatchAtoms(atoms, text, p) ==
    LET at(k) == p + Cardinality({j \in 1..(k - 1) : Consumes(atoms[j])})
        ok(k) ==
            CASE atoms[k].kind = "lit" ->
                    at(k) <= Len(text) /\ CharAt(text, at(k)) = atoms[k].ch
              [] atoms[k].kind = "any" ->
                    at(k) <= Len(text) /\ CharAt(text, at(k)) \notin {"\n", "\r"}
              [] atoms[k].kind = "bol" -> at(k) = 1
              [] OTHER -> at(k) = Len(text) + 1
    IN  IF \A k \in 1..Len(atoms) : ok(k) THEN at(Len(atoms) + 1) ELSE 0

\* a pattern of literal characters matches where the text spells its string
MatchAt(regex, text, p) ==
    IF regex.literal
    THEN IF /\ p + Len(regex.string) - 1 <= Len(text)
            /\ SubSeq(text, p, p + Len(regex.string) - 1) = regex.string
         THEN p + Len(regex.string) ELSE 0
    ELSE MatchAtoms(regex.atoms, text, p)

\* the number of "$" in a row that end just before position k
DollarRunBefore(replacement, k) ==
    LET others == {j \in 1..(k - 1) : CharAt(replacement, j) # "$"}
    IN  IF others = {} THEN k - 1
        ELSE k - 1 - (CHOOSE j \in others : \A m \in others : m <= j)

\* position k starts one of the two-character patterns $$ $& $'
StartsDollarPattern(replacement, k) ==
    /\ k < Len(replacement)
    /\ CharAt(replacement, k) = "$"
    /\ CharAt(replacement, k + 1) \in {"$", "&", "'"}
    /\ DollarRunBefore(replacement, k) % 2 = 0

\* GetSubstitution of ECMAScript for a pattern without capture groups:
\* $$ is "$", $& the match, $' the text after it; $n and $< name no group of
\* the pattern and stay as written.  (The grave accent of "$ grave", the text
\* before the match, is no character of a TLA+ string: texts here have none.)
GetSubstitution(matched, str, position, replacement) ==
    Concat([k \in 1..Len(replacement) |->
        IF StartsDollarPattern(replacement, k)
        THEN (CASE CharAt(replacement, k + 1) = "$" -> "$"
                [] CharAt(replacement, k + 1) = "&" -> matched
                [] OTHER -> SubSeq(str, position + Len(matched), Len(str)))
        ELSE IF k > 1 /\ StartsDollarPattern(replacement, k - 1) THEN ""
        ELSE CharAt(replacement, k)])

\* the global replace loop: the leftmost match at or after p is replaced, and
\* the search goes on from its end (one character further after an empty match)
RECURSIVE ReplaceFrom(_, _, _, _)
ReplaceFrom(regex, text, p, replacement) ==
    With({q \in p..(Len(text) + 1) : MatchAt(regex, text, q) # 0},
         LAMBDA starts :
            IF starts = {} THEN SubSeq(text, p, Len(text))
            ELSE With(Nth(starts, 1), LAMBDA m :
                 With(MatchAt(regex, text, m), LAMBDA e :
                    SubSeq(text, p, m - 1)
                        \o GetSubstitution(SubSeq(text, m, e - 1), text, m,
                                           replacement)
                        \o (IF e > m THEN ReplaceFrom(regex, text, e, replacement)
                            ELSE IF m > Len(text) THEN ""
                            ELSE CharAt(text, m)
                                     \o ReplaceFrom(regex, text, m + 1,
                                                    replacement)))))

\* text.replace(new RegExp(source, 'g'), replacement)
replaceAllRegExp(text, source, replacement) ==
    With(source, LAMBDA src :
    With(RegExpAtoms(src), LAMBDA regex :
    With(text, LAMBDA t :
    With(replacement, LAMBDA r : ReplaceFrom(regex, t, 1, r)))))

\* the substitution map is a JavaScript Map, here the sequence of its entries
\* <<key, value>> in insertion order
RECURSIVE replaceStringByMapParts(_, _)
replaceStringByMapParts(templateString, entries) ==
    IF Len(entries) = 0 THEN templateString
    ELSE With(replaceAllRegExp(templateString,
                               escapeRegex(entries[1][1]),
                               entries[1][2]),
              LAMBDA replaced : replaceStringByMapParts(replaced, Tail(entries)))

RECURSIVE replaceStringByMapPartsMain(_, _)
replaceStringByMapPartsMain(templateString, entries) ==
    IF Len(entries) = 0 THEN templateString
    ELSE With(replaceAllRegExp(templateString,
                               escapeRegexMain(entries[1][1]),
                               entries[1][2]),
              LAMBDA replaced : replaceStringByMapPartsMain(replaced, Tail(entries)))

\* Map.prototype.set: a key already present keeps its place and takes the value
mapSet(map, key, value) ==
    IF \E k \in 1..Len(map) : map[k][1] = key
    THEN [k \in 1..Len(map) |-> IF map[k][1] = key THEN <<key, value>> ELSE map[k]]
    ELSE Append(map, <<key, value>>)

(***************************************************************************)
(* path module of Node.js (posix)                                          *)
(***************************************************************************)
pathSep == "/"

stripTrailingSlashes(p) ==
    LET keep == {k \in 1..Len(p) : CharAt(p, k) # "/"}
    IN  IF keep = {} THEN ""
        ELSE SubSeq(p, 1, CHOOSE a \in keep : \A b \in keep : b <= a)

LastIndexOf(s, c) ==
    LET hits == {k \in 1..Len(s) : CharAt(s, k) = c}
    IN  IF hits = {} THEN 0 ELSE CHOOSE k \in hits : \A j \in hits : j <= k

pathBasename(p) ==
    LET q == stripTrailingSlashes(p)
    IN  SubSeq(q, LastIndexOf(q, "/") + 1, Len(q))

pathDirname(p) ==
    LET q       == stripTrailingSlashes(p)
        hasRoot == p # "" /\ CharAt(p, 1) = "/"
        hits    == {k \in 2..Len(q) : CharAt(q, k) = "/"}
        k       == CHOOSE x \in hits : \A j \in hits : j <= x
    IN  IF p = "" THEN "."
        ELSE IF hits = {} THEN (IF hasRoot THEN "/" ELSE ".")
        ELSE IF hasRoot /\ k = 2 THEN "//"
        ELSE SubSeq(p, 1, k - 1)

pathExtname(p) ==
    LET b == pathBasename(p)
        k == LastIndexOf(b, ".")
    IN  IF k <= 1 \/ b = ".." THEN "" ELSE SubSeq(b, k, Len(b))

RECURSIVE normalizeSegments(_, _, _)
normalizeSegments(segs, acc, isAbsolute) ==
    IF Len(segs) = 0 THEN acc
    ELSE LET s == Head(segs)
             next ==
                 IF s = "" \/ s = "." THEN acc
                 ELSE IF s = ".."
                 THEN IF Len(acc) > 0 /\ acc[Len(acc)] # ".."
                      THEN SubSeq(acc, 1, Len(acc) - 1)
                      ELSE IF isAbsolute THEN acc ELSE Append(acc, "..")
                 ELSE Append(acc, s)
         IN  normalizeSegments(Tail(segs), next, isAbsolute)

pathNormalize(p) ==
    LET isAbsolute == p # "" /\ CharAt(p, 1) = "/"
        trailing   == p # "" /\ CharAt(p, Len(p)) = "/"
        body       == join(normalizeSegments(split(p, "/"), <<>>, isAbsolute), "/")
        body2      == IF body = "" /\ ~isAbsolute THEN "." ELSE body
        body3      == IF body # "" /\ trailing THEN body2 \o "/" ELSE body2
    IN  IF p = "" THEN "."
        ELSE IF isAbsolute THEN "/" \o body3 ELSE body3


(***************************************************************************)
(* Constants of the script.  A JavaScript object or Map is the sequence of *)
(* its entries <<key, value>> in insertion order.                          *)
(***************************************************************************)
substitutionEnum == [filename |-> "filename", contents |-> "contents"]

filesToUpdate ==
    << <<"custom-elements.json", {"contents"}>>,
       <<"examples/index.html", {"contents"}>>,
       <<"src/custom-element.ts", {"filename", "contents"}>>,
       <<"test/test.ts", {"contents"}>>,
       <<"vscode.html-custom-data.json", {"contents"}>>,
       <<".eslintrc.json", {"contents"}>>,
       <<"package.json", {"contents"}>> >>

filesToUpdateMain ==
    << <<"custom-elements.json", {"filename", "contents"}>>,
       <<"custom-elements-manifest.config.js", {"filename"}>>,
       <<"examples/index.html", {"contents"}>>,
       <<"src/custom-element.ts", {"filename", "contents"}>>,
       <<"test/test.ts", {"contents"}>> >>

fromCustomElementKey ==
    << <<"file", "custom-element">>,
       <<"fileSuffix", "element">>,
       <<"tag", "custom-element">>,
       <<"tagName", "CUSTOM-ELEMENT">>,
       <<"className", "CustomElement">>,
       <<"suffix", "Element">> >>

fromCustomElementKeyMain ==
    << <<"file", "custom-element">>,
       <<"tag", "custom-element">>,
       <<"tagName", "CUSTOM-ELEMENT">>,
       <<"className", "CustomElement">>,
       <<"suffix", "Element">> >>

\* obj[key] of a JavaScript object given by its entries
Get(obj, key) == obj[CHOOSE k \in 1..Len(obj) : obj[k][1] = key][2]


replacementTemplateMap ==
    [filename |->
        << <<"{from:file}", "{to:file}-{to:fileSuffix}">> >>,
     contents |->
        << <<"<{from:tag}>", "<{to:tag}>">>,
           <<"</{from:tag}>", "</{to:tag}>">>,
           <<"\"{from:tag}\"", "\"{to:tag}\"">>,
           <<"'{from:tag}'", "'{to:tag}'">>,
           <<"{from:tag} demo", "{to:tag} demo">>,
           <<"src/{from:tag}'", "src/{to:tag}-{to:fileSuffix}'">>,
           <<"src/{from:tag}.ts", "src/{to:tag}-{to:fileSuffix}.ts">>,
           <<"{from:tagName}", "{to:tagName}">>,
           <<"{from:className}{from:suffix}", "{to:className}{to:suffix}">>,
           <<"\"repository\": \"github/{from:tag}-boilerplate\"",
             "\"repository\": \"github/{to:tag}-{to:fileSuffix}\"">>,
           <<"\"name\": \"@github/{from:tag}-{from:fileSuffix}\"",
             "\"name\": \"{to:tag}-{to:fileSuffix}\"">>,
           <<"\"main\": \"dist/{from:tag}.js\"",
             "\"main\": \"dist/{to:tag}-{to:fileSuffix}.js\"">>,
           <<"\"module\": \"dist/{from:tag}.js\"",
             "\"module\": \"dist/{to:tag}-{to:fileSuffix}.js\"">>,
           <<"\"types\": \"dist/{from:tag}s.d.ts\"",
             "\"types\": \"dist/{to:tag}-{to:fileSuffix}.d.ts\"">> >>]

replacementTemplateMapMain ==
    << <<"{from:file}s", "{to:file}">>,
       <<"{from:file}", "{to:file}">>,
       <<"{from:tag}", "{to:tag}">>,
       <<"{from:tagName}", "{to:tagName}">>,
       <<"{from:className}{from:suffix}", "{to:className}{to:suffix}">> >>

(***************************************************************************)
(* Naming                                                                  *)
(***************************************************************************)
gitSuffix == ".git"

\* gitOriginRemote and gitPath are the stdout of the two git calls; the second
\* call is made only when the first gives no name
byOrigin(originStdout) ==
    LET base == pathBasename(trim(originStdout))
    IN  IF endsWith(base, gitSuffix)
        THEN sliceZeroToMinus(base, Len(gitSuffix))
        ELSE base

tryFetchGitRepositoryName(originStdout, pathStdout) ==
    IF byOrigin(originStdout) # "" THEN byOrigin(originStdout)
    ELSE pathBasename(pathStdout)

byOriginMain(originStdout) ==
    sliceZeroToMinus(pathBasename(trim(originStdout)), Len(".git"))

tryFetchGitRepositoryNameMain(originStdout, pathStdout) ==
    IF byOriginMain(originStdout) # "" THEN byOriginMain(originStdout)
    ELSE pathBasename(pathStdout)

calculateCustomElementNameFromRepositoryName(name) ==
    LET words == split(name, "-")
    IN  join([k \in 1..Len(words) |-> ucFirst(words[k])], "")

\* a replacer that lowercases the capitals and puts no '-' before them
dashUpperCaseWithoutDash(text) ==
    Concat([k \in 1..Len(text) |-> charToLowerCase(CharAt(text, k))])

\* text.replace(/[A-Z]{1}/g, (match) => '-' + match[0].toLowerCase())
dashUpperCase(text) ==
    Concat([k \in 1..Len(text) |->
               IF IndexIn(CharAt(text, k), UpperAlphabet) # 0
               THEN "-" \o charToLowerCase(CharAt(text, k))
               ELSE CharAt(text, k)])

dashCase(targetClassName) == dashUpperCase(lcFirst(targetClassName))

\* target keys whose tagName is the tag, not its upper case
calculateTargetKeysWithoutUpperCase(targetClassName) ==
    << <<"file", dashCase(targetClassName)>>,
       <<"fileSuffix", lcFirst(Get(fromCustomElementKey, "suffix"))>>,
       <<"tag", dashCase(targetClassName)>>,
       <<"tagName", dashCase(targetClassName)>>,
       <<"className", targetClassName>>,
       <<"suffix", Get(fromCustomElementKey, "suffix")>> >>

calculateTargetCustomElementKeysByClassName(targetClassName) ==
    << <<"file", dashCase(targetClassName)>>,
       <<"fileSuffix", lcFirst(Get(fromCustomElementKey, "suffix"))>>,
       <<"tag", dashCase(targetClassName)>>,
       <<"tagName", toUpperCase(dashCase(targetClassName))>>,
       <<"className", targetClassName>>,
       <<"suffix", Get(fromCustomElementKey, "suffix")>> >>

calculateTargetCustomElementKeysByClassNameMain(targetClassName) ==
    << <<"file", dashCase(targetClassName)>>,
       <<"tag", dashCase(targetClassName)>>,
       <<"tagName", toUpperCase(dashCase(targetClassName))>>,
       <<"className", targetClassName>>,
       <<"suffix", Get(fromCustomElementKeyMain, "suffix")>> >>

(***************************************************************************)
(* Substitution maps                                                       *)
(***************************************************************************)
RECURSIVE setMapEntriesByPrefixedObjectKeys(_, _, _)
setMapEntriesByPrefixedObjectKeys(entries, prefix, keyValue) ==
    IF Len(keyValue) = 0 THEN entries
    ELSE With(mapSet(entries,
                     "{" \o prefix \o ":" \o keyValue[1][1] \o "}",
                     keyValue[1][2]),
              LAMBDA map :
                  setMapEntriesByPrefixedObjectKeys(map, prefix, Tail(keyValue)))

prefixedKeyMapOf(fromKeys, toKeys) ==
    setMapEntriesByPrefixedObjectKeys(
        setMapEntriesByPrefixedObjectKeys(<<>>, "from", fromKeys), "to", toKeys)

\* the loop over one template Map: map.set(resolved key, resolved value)
RECURSIVE resolveTemplates(_, _, _)
resolveTemplates(templates, prefixedKeyMap, map) ==
    IF Len(templates) = 0 THEN map
    ELSE With(mapSet(map,
                     replaceStringByMapParts(templates[1][1], prefixedKeyMap),
                     replaceStringByMapParts(templates[1][2], prefixedKeyMap)),
              LAMBDA set : resolveTemplates(Tail(templates), prefixedKeyMap, set))

calculateReplacementMap(fromKeys, toKeys) ==
    With(prefixedKeyMapOf(fromKeys, toKeys), LAMBDA prefixedKeyMap :
        [filename |-> resolveTemplates(replacementTemplateMap.filename,
                                       prefixedKeyMap, <<>>),
         contents |-> resolveTemplates(replacementTemplateMap.contents,
                                       prefixedKeyMap, <<>>)])

RECURSIVE resolveTemplatesMain(_, _, _)
resolveTemplatesMain(templates, prefixedKeyMap, map) ==
    IF Len(templates) = 0 THEN map
    ELSE With(mapSet(map,
                     replaceStringByMapPartsMain(templates[1][1], prefixedKeyMap),
                     replaceStringByMapPartsMain(templates[1][2], prefixedKeyMap)),
              LAMBDA set : resolveTemplatesMain(Tail(templates), prefixedKeyMap, set))

calculateReplacementMapMain(fromKeys, toKeys) ==
    With(prefixedKeyMapOf(fromKeys, toKeys), LAMBDA prefixedKeyMap :
        resolveTemplatesMain(replacementTemplateMapMain, prefixedKeyMap, <<>>))

(***************************************************************************)
(* File paths                                                              *)
(***************************************************************************)
\* process.cwd(): the root of the cloned template
Cwd == "/w"

getFileFullPath(relativePath) == pathNormalize(Cwd \o pathSep \o relativePath)

calculateTargetFileFullPath(fromFullPath, entries) ==
    LET directory == pathDirname(fromFullPath)
        basename  == pathBasename(fromFullPath)
        extension == pathExtname(basename)
        fileName  == sliceZeroToMinus(basename, Len(extension))
        fileNameReplacement == replaceStringByMapParts(fileName, entries)
    IN  directory \o pathSep \o fileNameReplacement \o extension

calculateTargetFileFullPathMain(fromFilePath, entries) ==
    LET fromFullPath == pathNormalize(Cwd \o pathSep \o fromFilePath)
        directory == pathDirname(fromFullPath)
        basename  == pathBasename(fromFullPath)
        extension == pathExtname(basename)
        fileName  == sliceZeroToMinus(basename, Len(extension))
        fileNameReplacement == replaceStringByMapPartsMain(fileName, entries)
    IN  directory \o pathSep \o fileNameReplacement \o extension


(***************************************************************************)
(* Inputs of a run: what git prints, what the user types, the working tree *)
(***************************************************************************)
GitOriginOutputs == {"", "h://g/u/foo-bar.git\n", "h://g/u/nav-element\n"}

GitPathOutputs == {"/home/u/my-tab\n"}

PromptAnswers == {"", " ", "FooBar", " FooBarElement ", "fooBar", "Custom"}

\* the text of each template file before the run
InitialContents ==
    [p \in {getFileFullPath(filesToUpdate[k][1]) : k \in 1..Len(filesToUpdate)}
            \cup {pathNormalize(Cwd \o pathSep \o filesToUpdateMain[k][1]) :
                      k \in 1..Len(filesToUpdateMain)}
        |-> CASE p = "/w/custom-elements.json" -> "\"name\": \"custom-element\""
              [] p = "/w/custom-elements-manifest.config.js" -> "custom-elements"
              [] p = "/w/examples/index.html" -> "<custom-element></custom-element>"
              [] p = "/w/src/custom-element.ts" -> "class CustomElementElement {}"
              [] p = "/w/test/test.ts" -> "CUSTOM-ELEMENT"
              [] p = "/w/package.json" -> "\"main\": \"dist/custom-element.js\""
              [] OTHER -> "{}"]

\* the text of a file that an earlier run left in the working tree
ExtraContents == "<custom-element>"

\* the working trees a run may start in: the template files of the manifest,
\* at most MaxMissing of them missing, with or without the file of an earlier run
InitialTrees(manifestPaths, extraPath) ==
    {[p \in (manifestPaths \ missing) \cup extra |->
         IF p \in extra THEN ExtraContents ELSE InitialContents[p]] :
       missing \in {m \in SUBSET manifestPaths : Cardinality(m) <= MaxMissing},
       extra \in {{}, {extraPath}}}


nameVars == <<gitOriginRemote, gitPath, repositoryName,
              customElementNameCandidate, promptAnswer, answer,
              toCustomElementKeys, replacementMap>>

fileVars == <<fromFileFullPath, targetFullPath, fileContent, updatedFileContent>>

vars == <<pc, i, fs, fs0, console, ops, nameVars, fileVars, call>>

NoCall == [fn |-> "none"]

InitRun(manifestPaths, extraPath) ==
    /\ pc = "discover"
    /\ i = 1
    /\ fs \in InitialTrees(manifestPaths, extraPath)
    /\ fs0 = fs
    /\ console = <<>>
    /\ ops = <<>>
    /\ gitOriginRemote = ""
    /\ gitPath = ""
    /\ repositoryName = ""
    /\ customElementNameCandidate = ""
    /\ promptAnswer = ""
    /\ answer = ""
    /\ toCustomElementKeys = <<>>
    /\ replacementMap = <<>>
    /\ fromFileFullPath = ""
    /\ targetFullPath = ""
    /\ fileContent = ""
    /\ updatedFileContent = ""
    /\ call = NoCall

Init ==
    InitRun({getFileFullPath(filesToUpdate[k][1]) : k \in 1..Len(filesToUpdate)},
            "/w/src/foo-bar-element.ts")

InitMain ==
    InitRun({pathNormalize(Cwd \o pathSep \o filesToUpdateMain[k][1]) :
                 k \in 1..Len(filesToUpdateMain)},
            "/w/src/foo-bar.ts")

(***************************************************************************)
(* The steps of the async main function shared by the two versions         *)
(***************************************************************************)
\* a rejection that is swallowed: the loop goes on with the rest of the entry
swallowedRejection == "filename"

\* nothing catches a rejected promise of the async main function: the run ends
unhandledRejection == "crashed"

\* ucFirst(promptAnswer.trim()) || customElementNameCandidate, suffix trimmed
chosenClassName(prompt, candidate) ==
    trimSuffix(IF ucFirst(trim(prompt)) # "" THEN ucFirst(trim(prompt))
               ELSE candidate,
               Get(fromCustomElementKey, "suffix"))

chosenClassNameMain(prompt, candidate) ==
    trimSuffixMain(IF ucFirst(trim(prompt)) # "" THEN ucFirst(trim(prompt))
                   ELSE candidate,
                   Get(fromCustomElementKeyMain, "suffix"))

\* the class names a run can choose, given what git prints and the user types
ReachableClassNames ==
    {chosenClassName(line,
         calculateCustomElementNameFromRepositoryName(
             tryFetchGitRepositoryName(o, p))) :
       line \in PromptAnswers, o \in GitOriginOutputs, p \in GitPathOutputs}

ReachableClassNamesMain ==
    {chosenClassNameMain(line,
         calculateCustomElementNameFromRepositoryName(
             tryFetchGitRepositoryNameMain(o, p))) :
       line \in PromptAnswers, o \in GitOriginOutputs, p \in GitPathOutputs}

\* calculateReplacementMap(fromCustomElementKey, keys) tabulated: the pairs
\* <<keys, map>> for the target keys of each class name, so that the map is
\* evaluated once for each class name and not once for each state
replacementMapTable ==
    {<<keys, calculateReplacementMap(fromCustomElementKey, keys)>> :
        keys \in {calculateTargetCustomElementKeysByClassName(c) :
                     c \in ReachableClassNames}}

replacementMapTableMain ==
    {<<keys, calculateReplacementMapMain(fromCustomElementKeyMain, keys)>> :
        keys \in {calculateTargetCustomElementKeysByClassNameMain(c) :
                     c \in ReachableClassNamesMain}}

Lookup(table, key) == (CHOOSE pair \in table : pair[1] = key)[2]

Op(kind, path) == [op |-> kind, path |-> path, entry |-> i]

\* await readlinePromise(...): the user submits one line
Prompt ==
    /\ pc = "prompt"
    /\ \E line \in PromptAnswers : promptAnswer' = line
    /\ pc' = "derive"
    /\ UNCHANGED <<i, fs, fs0, console, ops, gitOriginRemote, gitPath,
                   repositoryName, customElementNameCandidate, answer,
                   toCustomElementKeys, replacementMap, fileVars, call>>

\* an iteration that leaves out the entry after the current one
NextEntrySkipping == i' = i + 2 /\ pc' = "entry"

NextEntry == i' = i + 1 /\ pc' = "entry"

\* await fsp.readFile(path, 'utf8'), then the substitution of the text read
ReadStep(path, updatedText) ==
    /\ pc = "read"
    /\ \/ /\ fileContent' = fs[path]
          /\ updatedFileContent' = updatedText
          /\ ops' = Append(ops, Op("read", path))
          /\ pc' = "truncate"
       \/ /\ UNCHANGED <<fileContent, updatedFileContent>>
          /\ ops' = Append(ops, Op("read failed", path))
          /\ pc' = unhandledRejection
    /\ UNCHANGED <<i, fs, fs0, console, nameVars, fromFileFullPath,
                   targetFullPath, call>>

\* await fsp.truncate(path)
TruncateStep(path) ==
    /\ pc = "truncate"
    /\ \/ /\ fs' = [fs EXCEPT ![path] = ""]
          /\ ops' = Append(ops, Op("truncate", path))
          /\ pc' = "write"
       \/ /\ UNCHANGED fs
          /\ ops' = Append(ops, Op("truncate failed", path))
          /\ pc' = unhandledRejection
    /\ UNCHANGED <<i, fs0, console, nameVars, fileVars, call>>

\* a rename that copies: the file stays at the path it is renamed from
RenamedKeepingSource(tree, from, to) ==
    [p \in DOMAIN tree \cup {to} |-> IF p = to THEN tree[from] ELSE tree[p]]

\* fsp.rename(from, to): the file at from takes the place of any file at to
Renamed(tree, from, to) ==
    [p \in (DOMAIN tree \ {from}) \cup {to} |->
        IF p = to THEN tree[from] ELSE tree[p]]


(***************************************************************************)
(* The run of src/unnamed/part_002                                         *)
(***************************************************************************)
\* the four console.log lines at the start of the async main function
Banner ==
    <<"", "------------------------------------",
      "> Custom Element Boilerplate Setup <",
      "------------------------------------">>

\* the banner, tryFetchGitRepositoryName() and the candidate class name
DiscoverName ==
    /\ pc = "discover"
    /\ console' = console \o Banner
    /\ \E o \in GitOriginOutputs, p \in GitPathOutputs :
          /\ gitOriginRemote' = o
          /\ gitPath' = IF byOrigin(o) # "" THEN "" ELSE p
          /\ repositoryName' = tryFetchGitRepositoryName(o, p)
          /\ customElementNameCandidate' =
                 calculateCustomElementNameFromRepositoryName(
                     tryFetchGitRepositoryName(o, p))
    /\ pc' = "prompt"
    /\ UNCHANGED <<i, fs, fs0, ops, promptAnswer, answer,
                   toCustomElementKeys, replacementMap, fileVars, call>>

DeriveTarget ==
    /\ pc = "derive"
    /\ answer' = chosenClassName(promptAnswer, customElementNameCandidate)
    /\ toCustomElementKeys' =
           calculateTargetCustomElementKeysByClassName(
               chosenClassName(promptAnswer, customElementNameCandidate))
    /\ pc' = "buildmap"
    /\ UNCHANGED <<i, fs, fs0, console, ops, gitOriginRemote, gitPath,
                   repositoryName, customElementNameCandidate, promptAnswer,
                   replacementMap, fileVars, call>>

BuildMap ==
    /\ pc = "buildmap"
    /\ replacementMap' = Lookup(replacementMapTable, toCustomElementKeys)
    /\ pc' = "entry"
    /\ UNCHANGED <<i, fs, fs0, console, ops, gitOriginRemote, gitPath,
                   repositoryName, customElementNameCandidate, promptAnswer,
                   answer, toCustomElementKeys, fileVars, call>>

\* the head of the loop body: the progress line, the full path, the first flag
BeginEntry ==
    /\ pc = "entry"
    /\ i <= Len(filesToUpdate)
    /\ console' = Append(console, "Updating " \o filesToUpdate[i][1] \o "...")
    /\ fromFileFullPath' = getFileFullPath(filesToUpdate[i][1])
    /\ pc' = IF substitutionEnum.contents \in filesToUpdate[i][2]
             THEN "contents" ELSE "filename"
    /\ UNCHANGED <<i, fs, fs0, ops, nameVars, targetFullPath, fileContent,
                   updatedFileContent, call>>

\* replaceFileContents: if (!fs.existsSync(fileFullPath)) return
ContentsExists ==
    /\ pc = "contents"
    /\ pc' = IF fromFileFullPath \in DOMAIN fs THEN "read" ELSE "filename"
    /\ UNCHANGED <<i, fs, fs0, console, ops, nameVars, fileVars, call>>

contentsSubstitution(text) == replaceStringByMapParts(text, replacementMap.contents)

ReadFile ==
    ReadStep(fromFileFullPath, contentsSubstitution(fs[fromFileFullPath]))

Truncate == TruncateStep(fromFileFullPath)

\* await fsp.writeFile(fileFullPath, updatedFileContent)
WriteFile ==
    /\ pc = "write"
    /\ \/ /\ fs' = [fs EXCEPT ![fromFileFullPath] = updatedFileContent]
          /\ ops' = Append(ops, Op("write", fromFileFullPath))
          /\ pc' = "filename"
       \/ /\ UNCHANGED fs
          /\ ops' = Append(ops, Op("write failed", fromFileFullPath))
          /\ pc' = unhandledRejection
    /\ UNCHANGED <<i, fs0, console, nameVars, fileVars, call>>

\* if (!flags.includes(filename)) continue; the target path; replaceFileName's
\* if (!fs.existsSync(fromFullPath)) return
FilenameStep ==
    /\ pc = "filename"
    /\ IF substitutionEnum.filename \notin filesToUpdate[i][2]
       THEN NextEntry /\ UNCHANGED targetFullPath
       ELSE /\ targetFullPath' =
                   calculateTargetFileFullPath(fromFileFullPath,
                                               replacementMap.filename)
            /\ IF fromFileFullPath \in DOMAIN fs
               THEN pc' = "rename" /\ UNCHANGED i
               ELSE NextEntry
    /\ UNCHANGED <<fs, fs0, console, ops, nameVars, fromFileFullPath,
                   fileContent, updatedFileContent, call>>

\* await fsp.rename(fromFullPath, targetFullPath)
Rename ==
    /\ pc = "rename"
    /\ \/ /\ fs' = Renamed(fs, fromFileFullPath, targetFullPath)
          /\ ops' = Append(ops, Op("rename", fromFileFullPath))
          /\ NextEntry
       \/ /\ UNCHANGED <<fs, i>>
          /\ ops' = Append(ops, Op("rename failed", fromFileFullPath))
          /\ pc' = unhandledRejection
    /\ UNCHANGED <<fs0, console, nameVars, fileVars, call>>

AllDone == "\nAll done! Happy hacking.\n"

\* after the last entry: console.log('\nAll done! Happy hacking.\n')
Finish ==
    /\ pc = "entry"
    /\ i > Len(filesToUpdate)
    /\ console' = Append(console, AllDone)
    /\ pc' = "done"
    /\ UNCHANGED <<i, fs, fs0, ops, nameVars, fileVars, call>>

Next ==
    \/ DiscoverName
    \/ Prompt
    \/ DeriveTarget
    \/ BuildMap
    \/ BeginEntry
    \/ ContentsExists
    \/ ReadFile
    \/ Truncate
    \/ WriteFile
    \/ FilenameStep
    \/ Rename
    \/ Finish

Spec == Init /\ [][Next]_vars

(***************************************************************************)
(* The run of src/src/main.js                                              *)
(***************************************************************************)
DiscoverNameMain ==
    /\ pc = "discover"
    /\ console' = console \o Banner
    /\ \E o \in GitOriginOutputs, p \in GitPathOutputs :
          /\ gitOriginRemote' = o
          /\ gitPath' = IF byOriginMain(o) # "" THEN "" ELSE p
          /\ repositoryName' = tryFetchGitRepositoryNameMain(o, p)
          /\ customElementNameCandidate' =
                 calculateCustomElementNameFromRepositoryName(
                     tryFetchGitRepositoryNameMain(o, p))
    /\ pc' = "prompt"
    /\ UNCHANGED <<i, fs, fs0, ops, promptAnswer, answer,
                   toCustomElementKeys, replacementMap, fileVars, call>>

DeriveTargetMain ==
    /\ pc = "derive"
    /\ answer' = chosenClassNameMain(promptAnswer, customElementNameCandidate)
    /\ toCustomElementKeys' =
           calculateTargetCustomElementKeysByClassNameMain(
               chosenClassNameMain(promptAnswer, customElementNameCandidate))
    /\ pc' = "buildmap"
    /\ UNCHANGED <<i, fs, fs0, console, ops, gitOriginRemote, gitPath,
                   repositoryName, customElementNameCandidate, promptAnswer,
                   replacementMap, fileVars, call>>

BuildMapMain ==
    /\ pc = "buildmap"
    /\ replacementMap' = Lookup(replacementMapTableMain, toCustomElementKeys)
    /\ pc' = "entry"
    /\ UNCHANGED <<i, fs, fs0, console, ops, gitOriginRemote, gitPath,
                   repositoryName, customElementNameCandidate, promptAnswer,
                   answer, toCustomElementKeys, fileVars, call>>

\* the step after the rename part of an entry: the contents part, if flagged
AfterFilenameMain ==
    IF substitutionEnum.contents \in filesToUpdateMain[i][2]
    THEN pc' = "contents" /\ UNCHANGED i
    ELSE NextEntry

\* the head of the loop body: the progress line, the target path, the first flag
BeginEntryMain ==
    /\ pc = "entry"
    /\ i <= Len(filesToUpdateMain)
    /\ console' = Append(console, "Updating " \o filesToUpdateMain[i][1] \o "...")
    /\ fromFileFullPath' = pathNormalize(Cwd \o pathSep \o filesToUpdateMain[i][1])
    /\ targetFullPath' =
           calculateTargetFileFullPathMain(filesToUpdateMain[i][1], replacementMap)
    /\ pc' = IF substitutionEnum.filename \in filesToUpdateMain[i][2]
             THEN "filename" ELSE "contents"
    /\ UNCHANGED <<i, fs, fs0, ops, nameVars, fileContent, updatedFileContent,
                   call>>

\* replaceFileName(key, targetFullPath): if (!fs.existsSync(fromFullPath)) return
FilenameStepMain ==
    /\ pc = "filename"
    /\ IF fromFileFullPath \in DOMAIN fs
       THEN pc' = "rename" /\ UNCHANGED i
       ELSE AfterFilenameMain
    /\ UNCHANGED <<fs, fs0, console, ops, nameVars, fileVars, call>>

\* await fsp.rename(fromFullPath, targetFullPath)
RenameMain ==
    /\ pc = "rename"
    /\ \/ /\ fs' = Renamed(fs, fromFileFullPath, targetFullPath)
          /\ ops' = Append(ops, Op("rename", fromFileFullPath))
          /\ AfterFilenameMain
       \/ /\ UNCHANGED <<fs, i>>
          /\ ops' = Append(ops, Op("rename failed", fromFileFullPath))
          /\ pc' = unhandledRejection
    /\ UNCHANGED <<fs0, console, nameVars, fileVars, call>>

\* replaceFileContents(targetFullPath, replacementMap):
\* if (!fs.existsSync(fileFullPath)) return
ContentsExistsMain ==
    /\ pc = "contents"
    /\ IF targetFullPath \in DOMAIN fs
       THEN pc' = "read" /\ UNCHANGED i
       ELSE NextEntry
    /\ UNCHANGED <<fs, fs0, console, ops, nameVars, fileVars, call>>

contentsSubstitutionMain(text) == replaceStringByMapPartsMain(text, replacementMap)

ReadFileMain ==
    ReadStep(targetFullPath, contentsSubstitutionMain(fs[targetFullPath]))

TruncateMain == TruncateStep(targetFullPath)

\* await fsp.writeFile(fileFullPath, updatedFileContent)
WriteFileMain ==
    /\ pc = "write"
    /\ \/ /\ fs' = [fs EXCEPT ![targetFullPath] = updatedFileContent]
          /\ ops' = Append(ops, Op("write", targetFullPath))
          /\ NextEntry
       \/ /\ UNCHANGED <<fs, i>>
          /\ ops' = Append(ops, Op("write failed", targetFullPath))
          /\ pc' = unhandledRejection
    /\ UNCHANGED <<fs0, console, nameVars, fileVars, call>>

FinishMain ==
    /\ pc = "entry"
    /\ i > Len(filesToUpdateMain)
    /\ console' = Append(console, AllDone)
    /\ pc' = "done"
    /\ UNCHANGED <<i, fs, fs0, ops, nameVars, fileVars, call>>

NextMain ==
    \/ DiscoverNameMain
    \/ Prompt
    \/ DeriveTargetMain
    \/ BuildMapMain
    \/ BeginEntryMain
    \/ FilenameStepMain
    \/ RenameMain
    \/ ContentsExistsMain
    \/ ReadFileMain
    \/ TruncateMain
    \/ WriteFileMain
    \/ FinishMain

SpecMain == InitMain /\ [][NextMain]_vars

(***************************************************************************)
(* Single calls of the functions of src/unnamed/part_002                   *)
(***************************************************************************)
\* the strings of at most n characters of an alphabet
RECURSIVE Strings(_, _)
Strings(alphabet, n) ==
    IF n = 0 THEN {""}
    ELSE Strings(alphabet, n - 1)
             \cup {s \o c : s \in Strings(alphabet, n - 1), c \in alphabet}

\* the sequences of at most n elements of a set
SeqsUpTo(set, n) == UNION {[1..k -> set] : k \in 0..n}

ClassNameAlphabet == {"A", "B", "a", "b", "-"}

ClassNames == Strings(ClassNameAlphabet, MaxNameLen) \cup {"FooBar", "NavElement"}

TextAlphabet == {"a", "b", "."}

Texts ==
    Strings(TextAlphabet, MaxTextLen)
        \cup {"<custom-element></custom-element>", "custom-elements", "custom_element"}

SubstitutionPairs ==
    {<<"a", "b">>, <<"b", "c">>, <<".", "a">>, <<"a", "$$">>, <<"a.", "[$&]">>}

SubstitutionLists ==
    SeqsUpTo(SubstitutionPairs, MaxSubs)
        \cup {<< <<"custom-element", "foo-bar">> >>,
              << <<"<custom-element>", "<foo-bar>">>,
                 <<"</custom-element>", "</foo-bar>">> >>}

\* what git config --get remote.origin.url prints: nothing, or the URL and a newline
OriginStdouts ==
    {""} \cup {url \o "\n" : url \in {"h://g/u/foo-bar.git", "h://g/u/nav-element",
                                     "g@h:u/my.git.git", "h://g/u/foo-bar/",
                                     "h://g/u/.git"}}

\* what git rev-parse --show-toplevel prints: the path and a newline
ToplevelStdouts == {dir \o "\n" : dir \in {"/home/u/my-tab", "/srv/a.git", "/w"}}

FromFullPaths ==
    {"/w/src/custom-element.ts", "/w/src/custom-element",
     "/w/custom-element.config.js", "/w/src/.custom-element", "/w/LICENSE",
     "/w/package.json"}

\* a call is made once, from the idle state
Called == pc = "idle" /\ pc' = "returned"

runVars == <<i, fs, fs0, console, ops, nameVars, fileVars>>

InitFn ==
    /\ pc = "idle"
    /\ i = 1
    /\ fs = <<>>
    /\ fs0 = <<>>
    /\ console = <<>>
    /\ ops = <<>>
    /\ gitOriginRemote = ""
    /\ gitPath = ""
    /\ repositoryName = ""
    /\ customElementNameCandidate = ""
    /\ promptAnswer = ""
    /\ answer = ""
    /\ toCustomElementKeys = <<>>
    /\ replacementMap = <<>>
    /\ fromFileFullPath = ""
    /\ targetFullPath = ""
    /\ fileContent = ""
    /\ updatedFileContent = ""
    /\ call = NoCall

CallReplaceStringByMapParts ==
    /\ Called
    /\ \E text \in Texts, subs \in SubstitutionLists :
          call' = [fn |-> "replaceStringByMapParts",
                   templateString |-> text,
                   substitutions |-> subs,
                   result |-> replaceStringByMapParts(text, subs)]
    /\ UNCHANGED runVars

\* the target keys of a class name, and the class name read back from the tag
CallCalculateTargetCustomElementKeysByClassName ==
    /\ Called
    /\ \E c \in ClassNames :
          call' = [fn |-> "calculateTargetCustomElementKeysByClassName",
                   targetClassName |-> c,
                   result |-> calculateTargetCustomElementKeysByClassName(c),
                   roundTrip |->
                       calculateCustomElementNameFromRepositoryName(
                           Get(calculateTargetCustomElementKeysByClassName(c),
                               "tag"))]
    /\ UNCHANGED runVars

CallTryFetchGitRepositoryName ==
    /\ Called
    /\ \E o \in OriginStdouts, p \in ToplevelStdouts :
          call' = [fn |-> "tryFetchGitRepositoryName",
                   originStdout |-> o,
                   toplevelStdout |-> p,
                   result |-> tryFetchGitRepositoryName(o, p)]
    /\ UNCHANGED runVars

CallCalculateTargetFileFullPath ==
    /\ Called
    /\ \E path \in FromFullPaths, c \in ReachableClassNames :
          call' = [fn |-> "calculateTargetFileFullPath",
                   fromFullPath |-> path,
                   targetClassName |-> c,
                   substitutions |->
                       Lookup(replacementMapTable,
                              calculateTargetCustomElementKeysByClassName(c)).filename,
                   result |->
                       calculateTargetFileFullPath(path,
                           Lookup(replacementMapTable,
                                  calculateTargetCustomElementKeysByClassName(c)).filename)]
    /\ UNCHANGED runVars

\* the class names whose substitution map is built: letters only, the first one
\* a capital
MapClassNames ==
    {c \in ClassNames :
        /\ c # ""
        /\ IndexIn(CharAt(c, 1), UpperAlphabet) # 0
        /\ \A k \in 1..Len(c) : IndexIn(CharAt(c, k), "-") = 0}
      \cup {"CustomElementA"}

\* the texts of a manifest file that name the tag of the template
FromTagTexts == {"custom-elements", "custom-element"}

\* the map of src/src/main.js for a class name, and the texts rewritten by it
MapCall(c) ==
    With(calculateTargetCustomElementKeysByClassNameMain(c), LAMBDA toKeys :
        With(calculateReplacementMapMain(fromCustomElementKeyMain, toKeys),
             LAMBDA entries :
                 [fn |-> "calculateReplacementMap",
                  targetClassName |-> c,
                  toKeys |-> toKeys,
                  result |-> entries,
                  rewritten |->
                      [t \in FromTagTexts |->
                          replaceStringByMapPartsMain(t, entries)]]))

MapCalls == {MapCall(c) : c \in MapClassNames}

CallCalculateReplacementMapMain ==
    /\ Called
    /\ call' \in MapCalls
    /\ UNCHANGED runVars

\* the repository names found by git, and the lines the user may submit
RepositoryNames == {"foo-bar", "element", "nav-element"}

AnswerLines == PromptAnswers \cup {"Element", " element ", "E"}

\* establishing custom element class name: the candidate of the repository
\* name, the answer to the prompt, and the target keys of the class name chosen
CallEstablishClassName ==
    /\ Called
    /\ \E name \in RepositoryNames, line \in AnswerLines :
          call' = [fn |-> "establishClassName",
                   repositoryName |-> name,
                   customElementNameCandidate |->
                       calculateCustomElementNameFromRepositoryName(name),
                   promptAnswer |-> line,
                   answer |->
                       chosenClassName(line,
                           calculateCustomElementNameFromRepositoryName(name)),
                   toCustomElementKeys |->
                       calculateTargetCustomElementKeysByClassName(
                           chosenClassName(line,
                               calculateCustomElementNameFromRepositoryName(name)))]
    /\ UNCHANGED runVars

NextFn ==
    \/ CallEstablishClassName
    \/ CallReplaceStringByMapParts
    \/ CallCalculateTargetCustomElementKeysByClassName
    \/ CallTryFetchGitRepositoryName
    \/ CallCalculateTargetFileFullPath
    \/ CallCalculateReplacementMapMain

SpecFn == InitFn /\ [][NextFn]_vars

(***************************************************************************)
(* Reference definitions, written from the properties they state           *)
(***************************************************************************)
RefIsLetter(c) == IndexIn(c, UpperAlphabet) # 0 \/ IndexIn(c, LowerAlphabet) # 0

\* a PascalCase class name: letters only, the first one a capital
RefIsPascalCase(name) ==
    /\ name # ""
    /\ IndexIn(CharAt(name, 1), UpperAlphabet) # 0
    /\ \A k \in 1..Len(name) : RefIsLetter(CharAt(name, k))

RefEndsWith(text, suffix) ==
    /\ Len(text) >= Len(suffix)
    /\ SubSeq(text, Len(text) - Len(suffix) + 1, Len(text)) = suffix

\* one trailing occurrence of the suffix removed, if present
RefStripSuffix(text, suffix) ==
    IF RefEndsWith(text, suffix)
    THEN SubSeq(text, 1, Len(text) - Len(suffix))
    ELSE text

RECURSIVE RefTrimLeft(_)
RefTrimLeft(text) ==
    IF text # "" /\ CharAt(text, 1) \in {" ", "\t", "\n", "\r"}
    THEN RefTrimLeft(SubSeq(text, 2, Len(text)))
    ELSE text

RECURSIVE RefTrimRight(_)
RefTrimRight(text) ==
    IF text # "" /\ CharAt(text, Len(text)) \in {" ", "\t", "\n", "\r"}
    THEN RefTrimRight(SubSeq(text, 1, Len(text) - 1))
    ELSE text

\* leading and trailing whitespace removed
RefTrim(text) == RefTrimRight(RefTrimLeft(text))

RefCapitalize(text) ==
    IF text = "" THEN ""
    ELSE charToUpperCase(CharAt(text, 1)) \o SubSeq(text, 2, Len(text))

\* every later uppercase letter replaced by '-' plus its lowercase
RECURSIVE RefDashTail(_)
RefDashTail(text) ==
    IF text = "" THEN ""
    ELSE (IF IndexIn(CharAt(text, 1), UpperAlphabet) # 0
          THEN "-" \o charToLowerCase(CharAt(text, 1))
          ELSE CharAt(text, 1))
             \o RefDashTail(SubSeq(text, 2, Len(text)))

\* the dash-case form of a class name
RefDashCase(name) ==
    IF name = "" THEN ""
    ELSE charToLowerCase(CharAt(name, 1)) \o RefDashTail(SubSeq(name, 2, Len(name)))

\* every non-overlapping occurrence of a literal pattern replaced, left to right
RECURSIVE RefReplaceLiteral(_, _, _)
RefReplaceLiteral(text, pattern, replacement) ==
    IF Len(text) < Len(pattern) \/ pattern = "" THEN text
    ELSE IF SubSeq(text, 1, Len(pattern)) = pattern
    THEN replacement
             \o RefReplaceLiteral(SubSeq(text, Len(pattern) + 1, Len(text)),
                                  pattern, replacement)
    ELSE CharAt(text, 1)
             \o RefReplaceLiteral(SubSeq(text, 2, Len(text)), pattern, replacement)

\* the pairs applied in list order, the output of one fed to the next
RECURSIVE RefApplySubstitutions(_, _)
RefApplySubstitutions(text, subs) ==
    IF Len(subs) = 0 THEN text
    ELSE RefApplySubstitutions(
             RefReplaceLiteral(text, subs[1][1], subs[1][2]), Tail(subs))

\* the value git printed: its output without the newline that ends it
RefPrintedValue(stdout) ==
    IF RefEndsWith(stdout, "\n") THEN SubSeq(stdout, 1, Len(stdout) - 1) ELSE stdout

RefRepositoryName(originOut, toplevelOut) ==
    LET byRemote == RefStripSuffix(pathBasename(RefPrintedValue(originOut)), ".git")
    IN  IF byRemote # "" THEN byRemote
        ELSE pathBasename(RefPrintedValue(toplevelOut))

\* the class name of a prompt answer as the code derives it
RefChosenClassName(line, candidate) ==
    RefStripSuffix(IF RefTrim(line) = "" THEN candidate
                   ELSE RefCapitalize(RefTrim(line)),
                   "Element")

\* the class name of a prompt answer with no change but the trim and the suffix
RefUnchangedClassName(line, candidate) ==
    IF RefTrim(line) = "" THEN candidate
    ELSE RefStripSuffix(RefTrim(line), "Element")

\* directory + separator + substituted base name without extension + extension
RefTargetFileFullPath(fromFullPath, subs) ==
    LET base == pathBasename(fromFullPath)
        ext  == pathExtname(base)
        stem == SubSeq(base, 1, Len(base) - Len(ext))
    IN  pathDirname(fromFullPath) \o "/" \o RefApplySubstitutions(stem, subs) \o ext

(***************************************************************************)
(* The run over src/custom-element.ts (Spec)                               *)
(***************************************************************************)
ScenarioSource == "/w/src/custom-element.ts"

ScenarioText == "class CustomElementElement {}"

ScenarioTarget == "/w/src/" \o RefDashCase(promptAnswer) \o "-element.ts"

\* a finished run in which a PascalCase class name that does not end in
\* 'Element' was entered and the source file held the text of the scenario
ScenarioRun ==
    /\ pc = "done"
    /\ RefIsPascalCase(promptAnswer)
    /\ ~RefEndsWith(promptAnswer, "Element")
    /\ ScenarioSource \in DOMAIN fs0
    /\ fs0[ScenarioSource] = ScenarioText

ScenarioRewritten ==
    /\ ScenarioTarget \in DOMAIN fs
    /\ fs[ScenarioTarget] = "class " \o promptAnswer \o "Element {}"

\* C1, in the form that holds: for every PascalCase class name C not ending in 'Element'
\* entered at the prompt, the run over src/custom-element.ts holding
\* `class CustomElementElement {}` ends with a file at
\* src/<dash-case(C)>-element.ts whose contents are `class <C>Element {}`, and
\* with no file at src/custom-element.ts unless that is the target path itself
C1_RenamedAndRewritten ==
    ScenarioRun =>
        /\ ScenarioRewritten
        /\ ScenarioTarget # ScenarioSource => ScenarioSource \notin DOMAIN fs

\* C1, in its stronger form: the run ends with no file at src/custom-element.ts, for every
\* such class name
C1_AsStated ==
    ScenarioRun => ScenarioRewritten /\ ScenarioSource \notin DOMAIN fs

C1_Witness ==
    /\ ScenarioRun
    /\ promptAnswer = "FooBar"
    /\ ScenarioSource \notin DOMAIN fs
    /\ "/w/src/foo-bar-element.ts" \in DOMAIN fs
    /\ fs["/w/src/foo-bar-element.ts"] = "class FooBarElement {}"

(***************************************************************************)
(* The class name of the prompt answer (Spec)                              *)
(***************************************************************************)
ClassNameDerived == pc \notin {"discover", "prompt", "derive"}

\* C4, in the form that holds: the class name the target keys are derived from is the
\* candidate when the answer is blank after trimming, otherwise the trimmed
\* answer with its first character uppercased; in both cases with one trailing
\* 'Element' removed if present
C4_ChosenClassName ==
    ClassNameDerived =>
        /\ answer = RefChosenClassName(promptAnswer, customElementNameCandidate)
        /\ Get(toCustomElementKeys, "className") = answer

\* C4, in its stricter form: the candidate as it is when the answer is blank, otherwise
\* the trimmed answer without a trailing 'Element' and with no other change
C4_AsStated ==
    ClassNameDerived =>
        /\ answer = RefUnchangedClassName(promptAnswer, customElementNameCandidate)
        /\ Get(toCustomElementKeys, "className") = answer

C4_Witness ==
    /\ pc = "done"
    /\ promptAnswer = "fooBar"
    /\ answer = "FooBar"
    /\ Get(toCustomElementKeys, "className") = "FooBar"

(***************************************************************************)
(* A failing file operation (Spec)                                         *)
(***************************************************************************)
IsFailure(op) ==
    op.op \in {"read failed", "truncate failed", "write failed", "rename failed"}

ManifestPath(k) == getFileFullPath(filesToUpdate[k][1])

\* entry k is as a completed rewrite and rename leave it
EntryCompleted(k) ==
    LET source == ManifestPath(k)
        target == IF substitutionEnum.filename \in filesToUpdate[k][2]
                  THEN RefTargetFileFullPath(source, replacementMap.filename)
                  ELSE source
    IN  IF source \notin DOMAIN fs0 THEN source \notin DOMAIN fs
        ELSE /\ target \in DOMAIN fs
             /\ fs[target] =
                    IF substitutionEnum.contents \in filesToUpdate[k][2]
                    THEN RefApplySubstitutions(fs0[source], replacementMap.contents)
                    ELSE fs0[source]
             /\ target # source => source \notin DOMAIN fs

\* entry k is as it was at the start, and no file operation was done for it
EntryUntouched(k) ==
    /\ ManifestPath(k) \in DOMAIN fs <=> ManifestPath(k) \in DOMAIN fs0
    /\ ManifestPath(k) \in DOMAIN fs => fs[ManifestPath(k)] = fs0[ManifestPath(k)]
    /\ \A n \in 1..Len(ops) : ops[n].entry # k

\* C9: a failing read, truncate, write or rename of entry i ends the run with
\* no retry and no rollback: the failed operation is the last one done, the
\* entries before i keep their completed rewrite and rename, the entries after
\* i are untouched, and the completion message is not printed
C9_FailureStopsRun ==
    /\ (\E n \in 1..Len(ops) : IsFailure(ops[n])) => pc = "crashed"
    /\ pc = "crashed" =>
          /\ ~ENABLED Next
          /\ Len(ops) > 0
          /\ IsFailure(ops[Len(ops)])
          /\ ops[Len(ops)].entry = i
          /\ \A n \in 1..(Len(ops) - 1) : ~IsFailure(ops[n])
          /\ \A k \in 1..(i - 1) : EntryCompleted(k)
          /\ \A k \in (i + 1)..Len(filesToUpdate) : EntryUntouched(k)
          /\ \A n \in 1..Len(console) : console[n] # AllDone

\* the rename of src/custom-element.ts fails after its contents were written
C9_Witness ==
    /\ pc = "crashed"
    /\ promptAnswer = "FooBar"
    /\ Len(ops) > 0
    /\ ops[Len(ops)] = [op |-> "rename failed", path |-> ScenarioSource, entry |-> 3]
    /\ ScenarioSource \in DOMAIN fs
    /\ fs[ScenarioSource] = "class FooBarElement {}"
    /\ "/w/custom-elements.json" \in DOMAIN fs
    /\ fs["/w/custom-elements.json"] = "\"name\": \"foo-bar\""
    /\ fs["/w/package.json"] = fs0["/w/package.json"]

(***************************************************************************)
(* Missing files and the order of rewrite and rename (SpecMain)            *)
(***************************************************************************)
\* the run is inside the loop body of an entry whose file did not exist when
\* the entry began: it is missing and the entry has not renamed it
MissingEntry ==
    /\ pc \in {"filename", "rename", "contents", "read", "truncate", "write"}
    /\ fromFileFullPath \notin DOMAIN fs
    /\ \A n \in 1..Len(ops) : ~(ops[n].entry = i /\ ops[n].op = "rename")

\* C2: for a manifest entry whose path does not exist the run raises no
\* error, creates and changes no file, does no file operation and goes on to
\* the next entry
C2_MissingEntryIsNoOp ==
    [][MissingEntry =>
          /\ fs' = fs
          /\ ops' = ops
          /\ pc' # "crashed"
          /\ i' \in {i, i + 1}]_vars

\* the entry src/custom-element.ts is missing and the file at its rename
\* target, left by an earlier run, is rewritten
C2_Witness ==
    /\ pc = "done"
    /\ promptAnswer = "FooBar"
    /\ ScenarioSource \notin DOMAIN fs0
    /\ "/w/src/foo-bar.ts" \in DOMAIN fs0
    /\ fs0["/w/src/foo-bar.ts"] = "<custom-element>"
    /\ fs["/w/src/foo-bar.ts"] = "<foo-bar>"

BothFlagsMain(k) ==
    filesToUpdateMain[k][2] = {substitutionEnum.filename, substitutionEnum.contents}

\* C8: for an entry with both flags the rename is done only after the read and
\* the write of the rewrite, both at the path the file is renamed from, and no
\* read of the entry follows its rename
C8_RewriteBeforeRename ==
    \A n \in 1..Len(ops) :
        (ops[n].op = "rename" /\ BothFlagsMain(ops[n].entry)) =>
            /\ \E m \in 1..(n - 1) :
                  /\ ops[m].op = "read"
                  /\ ops[m].entry = ops[n].entry
                  /\ ops[m].path = ops[n].path
            /\ \E m \in 1..(n - 1) :
                  /\ ops[m].op = "write"
                  /\ ops[m].entry = ops[n].entry
                  /\ ops[m].path = ops[n].path
            /\ \A m \in (n + 1)..Len(ops) :
                  ~(ops[m].op = "read" /\ ops[m].entry = ops[n].entry)

\* the file was renamed first and read at the new path afterwards
C8_Witness ==
    /\ pc = "done"
    /\ \E n \in 1..Len(ops) : \E m \in (n + 1)..Len(ops) :
          /\ ops[n] = [op |-> "rename", path |-> ScenarioSource, entry |-> 4]
          /\ ops[m] = [op |-> "read", path |-> "/w/src/foo-bar.ts", entry |-> 4]

(***************************************************************************)
(* Single calls (SpecFn)                                                   *)
(***************************************************************************)
\* C3: replaceStringByMapParts equals the reference that applies the pairs in
\* list order, each replacing every non-overlapping occurrence of its pattern,
\* matched as a literal string, with its replacement string
C3_EqualsLiteralReference ==
    call.fn = "replaceStringByMapParts" =>
        call.result = RefApplySubstitutions(call.templateString, call.substitutions)

\* a replacement string holding $$ is not inserted as it is written
C3_Witness ==
    /\ call.fn = "replaceStringByMapParts"
    /\ call.templateString = "a"
    /\ call.substitutions = << <<"a", "$$">> >>
    /\ call.result = "$"

\* C5: tryFetchGitRepositoryName returns the basename of the remote origin URL
\* without a trailing .git when that is not empty, and otherwise the basename
\* of the top-level directory path, the git output being the value and a newline
C5_RepositoryName ==
    call.fn = "tryFetchGitRepositoryName" =>
        call.result = RefRepositoryName(call.originStdout, call.toplevelStdout)

\* with no remote, the name is the directory name with the newline git printed
C5_Witness ==
    /\ call.fn = "tryFetchGitRepositoryName"
    /\ call.originStdout = ""
    /\ call.toplevelStdout = "/home/u/my-tab\n"
    /\ call.result = "my-tab\n"

\* C6: for every PascalCase class name the tag of its target keys, split on
\* '-', each segment capitalised, and concatenated, is the class name again
C6_TagRoundTrip ==
    (call.fn = "calculateTargetCustomElementKeysByClassName"
        /\ RefIsPascalCase(call.targetClassName)) =>
            call.roundTrip = call.targetClassName

C6_Witness ==
    /\ call.fn = "calculateTargetCustomElementKeysByClassName"
    /\ call.targetClassName = "FooBar"
    /\ Get(call.result, "tag") = "foo-bar"
    /\ call.roundTrip = "FooBar"

\* C7: for every class name, the empty one included, the target keys have the
\* keys of the source set, file and tag are the dash-case form, tagName is
\* that form in upper case, className is the input, suffix is 'Element' and
\* fileSuffix is 'element'
C7_TargetKeys ==
    call.fn = "calculateTargetCustomElementKeysByClassName" =>
        /\ {call.result[k][1] : k \in 1..Len(call.result)}
               = {fromCustomElementKey[k][1] : k \in 1..Len(fromCustomElementKey)}
        /\ Len(call.result) = Len(fromCustomElementKey)
        /\ Get(call.result, "file") = RefDashCase(call.targetClassName)
        /\ Get(call.result, "tag") = RefDashCase(call.targetClassName)
        /\ Get(call.result, "tagName")
               = toUpperCase(RefDashCase(call.targetClassName))
        /\ Get(call.result, "className") = call.targetClassName
        /\ Get(call.result, "suffix") = "Element"
        /\ Get(call.result, "fileSuffix") = "element"

C7_Witness ==
    /\ call.fn = "calculateTargetCustomElementKeysByClassName"
    /\ call.targetClassName = ""
    /\ Get(call.result, "file") = ""
    /\ Get(call.result, "tagName") = ""
    /\ Get(call.result, "suffix") = "Element"
    /\ Get(call.result, "fileSuffix") = "element"

\* C10: calculateTargetFileFullPath returns the directory of the path, the
\* separator, the base name without its extension with the filename
\* substitutions applied, and the extension, also when there is no extension
C10_TargetFileFullPath ==
    call.fn = "calculateTargetFileFullPath" =>
        call.result = RefTargetFileFullPath(call.fromFullPath, call.substitutions)

\* a base name without extension is lost from the target path
C10_Witness ==
    /\ call.fn = "calculateTargetFileFullPath"
    /\ call.fromFullPath = "/w/src/custom-element"
    /\ call.targetClassName = "FooBar"
    /\ call.result = "/w/src/"

(***************************************************************************)
(* The order of a whole run (SpecLive)                                     *)
(***************************************************************************)
LoopPcs == {"entry", "contents", "read", "truncate", "write", "filename", "rename"}

\* the positions from which main() goes on without the user: synchronous
\* code, and awaits of the git commands and of the file operations
AwaitedPcs == {"discover", "derive", "buildmap"} \cup LoopPcs

\* weak fairness of each step of main(), with the enabling condition written
\* out: a step is enabled exactly when pc is at its position and always moves
\* pc, so the step is taken iff pc does not stay at the position for ever
EveryAwaitSettles == \A p \in AwaitedPcs : []<>(pc # p)

\* the user submits a line (Prompt) and every awaited promise settles
SpecLive == Spec /\ WF_vars(Prompt) /\ EveryAwaitSettles

\* discover name, prompt, derive target, build map, apply manifest, done
Phase(at) ==
    CASE at = "discover" -> 1
      [] at = "prompt" -> 2
      [] at = "derive" -> 3
      [] at = "buildmap" -> 4
      [] at \in LoopPcs -> 5
      [] at = "crashed" -> 5
      [] at = "done" -> 6

\* the entries whose loop body has begun
EntriesBegun ==
    IF Phase(pc) < 5 THEN 0
    ELSE IF pc \in {"entry", "done"} THEN i - 1
    ELSE i

UpdatingLine(k) == "Updating " \o filesToUpdate[k][1] \o "..."

HasFailure == \E n \in 1..Len(ops) : IsFailure(ops[n])

CompletionPrinted == \E n \in 1..Len(console) : console[n] = AllDone

\* the lines printed so far: the banner, one line for each entry begun, in
\* manifest order, and the completion message last and only when done
ConsoleInOrder ==
    console = (IF pc = "discover" THEN <<>> ELSE Banner)
                  \o [k \in 1..EntriesBegun |-> UpdatingLine(k)]
                  \o (IF pc = "done" THEN <<AllDone>> ELSE <<>>)

\* the file operations done so far: none before the maps are built, those of
\* the entries in manifest order, and each operation once at most for an entry
OpsInOrder ==
    /\ Phase(pc) < 5 => ops = <<>> /\ fs = fs0
    /\ \A n \in 1..Len(ops) : ops[n].entry \in 1..EntriesBegun
    /\ \A n \in 1..Len(ops) : \A m \in (n + 1)..Len(ops) :
          /\ ops[n].entry <= ops[m].entry
          /\ ops[n].entry = ops[m].entry => ops[n].op # ops[m].op

RunInOrder ==
    /\ ConsoleInOrder
    /\ OpsInOrder
    /\ pc = "done" => i = Len(filesToUpdate) + 1
    /\ Phase(pc) >= 5 =>
          replacementMap = Lookup(replacementMapTable, toCustomElementKeys)

StepInOrder ==
    /\ Phase(pc') \in {Phase(pc), Phase(pc) + 1}
    /\ i' \in {i, i + 1}
    /\ Len(ops') \in {Len(ops), Len(ops) + 1}
    /\ Phase(pc) >= 5 => replacementMap' = replacementMap
    /\ Phase(pc) # 4 => replacementMap' = replacementMap

\* C11: a run goes through discover name, prompt, derive target, build map,
\* apply manifest, done without going back; the maps are built once, before
\* any file is touched, and not changed afterwards; the entries are processed
\* one at a time in manifest order, each once, one file operation at a time;
\* and when no file operation fails the completion message is printed
\* eventually, after the last entry
C11_RunInOrder ==
    /\ []RunInOrder
    /\ [][StepInOrder]_vars
    /\ ([]~HasFailure) => <>(pc = "done" /\ CompletionPrinted)

C11_Witness ==
    /\ pc = "done"
    /\ promptAnswer = "FooBar"
    /\ ~HasFailure
    /\ console[Len(console)] = AllDone
    /\ Len(console) = Len(Banner) + Len(filesToUpdate) + 1
    /\ Len(ops) = 22

(***************************************************************************)
(* Text inserted by a substitution (SpecFn)                                *)
(***************************************************************************)
RefContains(text, part) ==
    \E k \in 1..(Len(text) - Len(part) + 1) :
        SubSeq(text, k, k + Len(part) - 1) = part

\* no replacement string contains the pattern of a later entry
RefNoLaterPattern(entries) ==
    \A a \in 1..Len(entries) : \A b \in (a + 1)..Len(entries) :
        ~RefContains(entries[a][2], entries[b][1])

\* C12: in the map that calculateReplacementMap of src/src/main.js builds for
\* a PascalCase class name no replacement string contains the pattern of a
\* later entry, and custom-elements and custom-element are both rewritten to
\* exactly the target tag
C12_InsertedTextNotRewritten ==
    call.fn = "calculateReplacementMap" =>
        /\ RefNoLaterPattern(call.result)
        /\ \A t \in FromTagTexts : call.rewritten[t] = Get(call.toKeys, "tag")

\* the tag of CustomElementA holds the pattern custom-element of the second
\* entry: the tag inserted for custom-elements is rewritten once more
C12_Witness ==
    /\ call.fn = "calculateReplacementMap"
    /\ call.targetClassName = "CustomElementA"
    /\ Get(call.toKeys, "tag") = "custom-element-a"
    /\ call.result[1] = <<"custom-elements", "custom-element-a">>
    /\ call.result[2] = <<"custom-element", "custom-element-a">>
    /\ call.rewritten["custom-elements"] = "custom-element-a-a"
    /\ call.rewritten["custom-element"] = "custom-element-a"

(***************************************************************************)
(* The contents of the manifest files during a run (Spec)                  *)
(***************************************************************************)
\* C13: in every state of a run, the state left by a failed file operation
\* included, each manifest file holds its original text or its fully
\* substituted text: never an empty or partly written text
C13_OriginalOrSubstituted ==
    \A k \in 1..Len(filesToUpdate) :
        (ManifestPath(k) \in DOMAIN fs /\ ManifestPath(k) \in DOMAIN fs0) =>
            \/ fs[ManifestPath(k)] = fs0[ManifestPath(k)]
            \/ /\ Phase(pc) >= 5
               /\ fs[ManifestPath(k)] = contentsSubstitution(fs0[ManifestPath(k)])

\* writeFile fails after truncate has emptied the file: the run ends with the
\* file empty
C13_Witness ==
    /\ pc = unhandledRejection
    /\ ops[Len(ops)] = [op |-> "write failed", path |-> "/w/custom-elements.json",
                        entry |-> 1]
    /\ ops[Len(ops) - 1].op = "truncate"
    /\ fs0["/w/custom-elements.json"] = "\"name\": \"custom-element\""
    /\ fs["/w/custom-elements.json"] = ""

(***************************************************************************)
(* The class name handed to the target keys (SpecFn)                       *)
(***************************************************************************)
\* C14: when the candidate derived from the repository name is not empty, the
\* class name passed to calculateTargetCustomElementKeysByClassName is not
\* empty whatever the user answers, and neither are the target tag, file and
\* tagName
C14_ClassNameNotEmpty ==
    (call.fn = "establishClassName" /\ call.customElementNameCandidate # "") =>
        /\ call.answer # ""
        /\ Get(call.toCustomElementKeys, "tag") # ""
        /\ Get(call.toCustomElementKeys, "file") # ""
        /\ Get(call.toCustomElementKeys, "tagName") # ""

\* the answer Element is the suffix itself: trimSuffix leaves nothing of it
C14_Witness ==
    /\ call.fn = "establishClassName"
    /\ call.customElementNameCandidate = "FooBar"
    /\ call.promptAnswer = "Element"
    /\ call.answer = ""
    /\ Get(call.toCustomElementKeys, "tag") = ""
    /\ Get(call.toCustomElementKeys, "tagName") = ""

====
